---- MODULE Spec2Model ----
(***************************************************************************)
(* Model of ts_src/hd/private.ts: the HDPrivateKey keyring.  One instance  *)
(* (the object the caller holds) is the state; every public method is an   *)
(* action.  External primitives (hdkey, bip39, bitcore Message, Psbt) are  *)
(* abstract but not trivial: keys are symbolic terms over (seed, path,     *)
(* index), hex encoding really encodes, a Psbt really accumulates          *)
(* signatures and finalisations.                                           *)
(***************************************************************************)
EXTENDS Integers, Sequences, FiniteSets, TLC

VARIABLES
  childIndex,     \* this.childIndex
  privateKey,     \* this.privateKey
  publicKey,      \* this.publicKey
  wallets,        \* this.wallets : sequence of ECPair objects
  seed,           \* this.seed (optional)
  index2wallet,   \* this._index2wallet : index -> [address, wallet]
  hdWallet,       \* this.hdWallet (optional master node)
  root,           \* this.root (optional node at hdPath)
  hdPath,         \* this.hdPath
  addressType,    \* BaseWallet.addressType (optional tag)
  nextId,         \* allocation counter naming the ECPair objects created
  pending,        \* mnemonicToSeed promises in flight on this instance
  last            \* the last call made by the user and its outcome

vars == <<childIndex, privateKey, publicKey, wallets, seed, index2wallet,
          hdWallet, root, hdPath, addressType, nextId, pending,
          last>>

----------------------------------------------------------------------------
(* Bounds *)

MaxIndex == 2

MaxAdd == 2

MaxInputs == 2

NumPsbtInputs == 2

----------------------------------------------------------------------------
(* Optional values: undefined / a defined value *)

undefined == [defined |-> FALSE]

Some(v) == [defined |-> TRUE, v |-> v]

IsDefined(x) == x.defined

Range(s) == {s[i] : i \in DOMAIN s}

----------------------------------------------------------------------------
(* Hex encoding of byte strings (@noble/hashes/utils) *)

HexDigits == <<"0", "1", "2", "3", "4", "5", "6", "7",
               "8", "9", "a", "b", "c", "d", "e", "f">>

HexValue(c) == (CHOOSE k \in 1..16 : HexDigits[k] = c) - 1

IsHexDigit(c) == \E k \in 1..16 : HexDigits[k] = c

RECURSIVE toHex(_)
toHex(bytes) ==
  IF bytes = <<>> THEN <<>>
  ELSE <<HexDigits[(bytes[1] \div 16) + 1], HexDigits[(bytes[1] % 16) + 1]>>
       \o toHex(Tail(bytes))

RECURSIVE hexBytes(_)
hexBytes(h) ==
  IF h = <<>> THEN <<>>
  ELSE <<HexValue(h[1]) * 16 + HexValue(h[2])>> \o hexBytes(SubSeq(h, 3, Len(h)))

\* hexToBytes throws on an odd length or on a character that is no hex digit
fromHex(h) ==
  IF Len(h) % 2 # 0 \/ \E i \in DOMAIN h : ~IsHexDigit(h[i])
  THEN [ok |-> FALSE, err |-> "invalid hex"]
  ELSE [ok |-> TRUE, value |-> hexBytes(h)]

----------------------------------------------------------------------------
(* Inputs *)

hdPathString == "m/44'/0'/0'/0"

OtherPath == "m/44'/1'/0'/0"

Paths == {hdPathString, OtherPath}

SeedA == <<0>>

SeedB == <<205>>

Seeds == {SeedA, SeedB}

BadHexes == {<<"z", "z">>}

SeedHexes == {toHex(SeedA)} \cup BadHexes

AddressTypes == {"P2PKH"}

OtherAddressTypes == {"P2WPKH"}

GoodPhrase == "abandon ability"

BadPhrase == "malformed"

Phrases == {GoodPhrase, BadPhrase}

Texts == {"hello"}

----------------------------------------------------------------------------
(* Keys and the derivation primitives (hdkey) *)

ZERO_PRIVKEY == [seed |-> <<>>, path |-> "zero", i |-> -2]

ZERO_KEY == [pubOf |-> ZERO_PRIVKEY]

PublicOf(priv) == [pubOf |-> priv]

pubHex(pub) == [hex |-> pub]

fromMasterSeed(s) == [seed |-> s, path |-> "m"]

derive(node, path) == [seed |-> node.seed, path |-> path]

NodePrivateKey(node) == [seed |-> node.seed, path |-> node.path, i |-> -1]

\* a seed under which child derivation collides (the pathological case)
CollidingSeed == SeedB

\* the child-derivation primitive: injective in the index, except under the
\* colliding seed, where every index yields one and the same key-pair
deriveChild(node, i) ==
  [seed |-> node.seed, path |-> node.path,
   i |-> IF node.seed = CollidingSeed THEN 1 ELSE i]

\* bip39 mnemonicToSeed: the seed a phrase stretches to
mnemonicSeed(phrase, passphrase) == SeedB

\* an input on which the conversion rejects
mnemonicRejects(phrase) == phrase = BadPhrase

\* BaseWallet.getAddress: the address encoding of a public key under a tag
getAddress(pub, type) == [pk |-> pub, type |-> type]

----------------------------------------------------------------------------
(* The instance as a record, so that a static method can build another one *)

This ==
  [childIndex |-> childIndex, privateKey |-> privateKey,
   publicKey |-> publicKey, wallets |-> wallets, seed |-> seed,
   index2wallet |-> index2wallet, hdWallet |-> hdWallet, root |-> root,
   hdPath |-> hdPath, addressType |-> addressType, nextId |-> nextId]

\* field initialisers of the class: the state after `new HDPrivateKey()`
NewInstance ==
  [childIndex |-> 0, privateKey |-> ZERO_PRIVKEY, publicKey |-> ZERO_KEY,
   wallets |-> <<>>, seed |-> undefined, index2wallet |-> <<>>,
   hdWallet |-> undefined, root |-> undefined, hdPath |-> hdPathString,
   addressType |-> "undefined", nextId |-> 0]

\* an ECPair object: its identity (allocation number) and its private key
ECPair(id, priv) == [id |-> id, privateKey |-> priv]

WalletPublicKey(w) == PublicOf(w.privateKey)

SetSeedClearing(o, s) ==
  LET master == fromMasterSeed(s)
      node == derive(master, o.hdPath)
  IN [o EXCEPT !.seed = Some(s), !.hdWallet = Some(master),
               !.root = Some(node),
               !.privateKey = NodePrivateKey(node),
               !.publicKey = PublicOf(NodePrivateKey(node)),
               !.index2wallet = <<>>, !.wallets = <<>>]

\* the steps shared by fromOptions, fromSeed and the tail of fromMnemonic
SetSeed(o, s) ==
  LET master == fromMasterSeed(s)
      node == derive(master, o.hdPath)
  IN [o EXCEPT !.seed = Some(s), !.hdWallet = Some(master),
               !.root = Some(node),
               !.privateKey = NodePrivateKey(node),
               !.publicKey = PublicOf(NodePrivateKey(node))]

fromSeed(o, s) == SetSeed(o, s)

\* async fromOptions: its body runs at once; a throw rejects the promise
fromOptions(o, options) ==
  LET o1 == [o EXCEPT !.childIndex = 0]
      bytes == fromHex(options.seed)
  IN IF bytes.ok THEN [ok |-> TRUE, o |-> SetSeed(o1, bytes.value)]
     ELSE [ok |-> FALSE, o |-> o1, err |-> bytes.err]

changeHdPathKeepCache(o, path) ==
  [o EXCEPT !.hdPath = path,
            !.root = IF IsDefined(o.hdWallet)
                     THEN Some(derive(o.hdWallet.v, path)) ELSE undefined,
            !.wallets = <<>>]

\* with the cache and the registry emptied no ECPair object of this instance
\* is reachable any more, so the allocation numbers start again
changeHdPath(o, path) ==
  [o EXCEPT !.hdPath = path,
            !.root = IF IsDefined(o.hdWallet)
                     THEN Some(derive(o.hdWallet.v, path)) ELSE undefined,
            !.index2wallet = <<>>,
            !.wallets = <<>>,
            !.nextId = 0]

getAccountsRootLast(o) ==
  [j \in 1..Len(o.wallets) |->
     getAddress(WalletPublicKey(o.wallets[j]), o.addressType)]
  \o <<getAddress(o.publicKey, o.addressType)>>

getAccounts(o) ==
  <<getAddress(o.publicKey, o.addressType)>>
  \o [j \in 1..Len(o.wallets) |->
        getAddress(WalletPublicKey(o.wallets[j]), o.addressType)]

addressFromIndexNoCache(o, i) ==
  IF ~IsDefined(o.root)
  THEN [ok |-> FALSE, o |-> o, err |-> "TypeError"]
  ELSE LET child == deriveChild(o.root.v, i)
           ecpair == ECPair(o.nextId, child)
           address == getAddress(WalletPublicKey(ecpair), o.addressType)
           entry == [address |-> address, wallet |-> ecpair]
       IN [ok |-> TRUE, entry |-> entry,
           o |-> [o EXCEPT !.nextId = @ + 1,
                           !.index2wallet =
                             [k \in DOMAIN o.index2wallet \cup {i} |->
                                IF k = i THEN entry ELSE o.index2wallet[k]]]]

\* _addressFromIndex: the cached entry, or derive, allocate, store
addressFromIndex(o, i) ==
  IF i \in DOMAIN o.index2wallet
  THEN [ok |-> TRUE, o |-> o, entry |-> o.index2wallet[i]]
  ELSE IF ~IsDefined(o.root)
  THEN [ok |-> FALSE, o |-> o, err |-> "TypeError"]
  ELSE LET child == deriveChild(o.root.v, i)
           ecpair == ECPair(o.nextId, child)
           address == getAddress(WalletPublicKey(ecpair), o.addressType)
           entry == [address |-> address, wallet |-> ecpair]
       IN [ok |-> TRUE, entry |-> entry,
           o |-> [o EXCEPT !.nextId = @ + 1,
                           !.index2wallet =
                             [k \in DOMAIN o.index2wallet \cup {i} |->
                                IF k = i THEN entry ELSE o.index2wallet[k]]]]

StartIndexLength(o) == Len(o.wallets)

\* line 76: the index addAccounts tries first
StartIndex(o) == IF Len(o.wallets) = 0 THEN 1 ELSE Len(o.wallets)

\* the outcome of a loop that has filled the registry up to MaxIndex entries
\* with its counter still not 0: the exploration follows it no further
StillRunning == "loop still running"

\* a call whose loop does not end never returns: nothing follows it
Hung ==
  /\ last.op \in {"addAccounts", "deserialize"}
  /\ last.running

\* the while loop of addAccounts: `while (count)` ends only when count is 0
RECURSIVE addLoop(_, _, _, _)
addLoop(o, count, currentIdx, newAddresses) ==
  IF count = 0 THEN [ok |-> TRUE, o |-> o, value |-> newAddresses]
  ELSE IF Len(o.wallets) >= MaxIndex
  THEN [ok |-> FALSE, o |-> o, err |-> StillRunning]
  ELSE LET r == addressFromIndex(o, currentIdx)
       IN IF ~r.ok THEN [ok |-> FALSE, o |-> r.o, err |-> r.err]
          ELSE IF r.entry.wallet \in Range(r.o.wallets)
          THEN addLoop(r.o, count, currentIdx + 1, newAddresses)
          ELSE addLoop([r.o EXCEPT !.wallets = Append(@, r.entry.wallet)],
                       count - 1, currentIdx,
                       Append(newAddresses, r.entry.address))

addAccounts(o, number) == addLoop(o, number, StartIndex(o), <<>>)

----------------------------------------------------------------------------
(* Lookups and signing *)

\* Array.prototype.find: the first element satisfying the test, if any
FirstIndex(ws, Test) ==
  IF \E j \in DOMAIN ws : Test[ws[j]]
  THEN CHOOSE j \in DOMAIN ws :
         Test[ws[j]] /\ \A k \in 1..(j - 1) : ~Test[ws[k]]
  ELSE 0

findAccount(o, account) ==
  LET Match == [w \in Range(o.wallets) |->
                  getAddress(WalletPublicKey(w), o.addressType) = account]
      j == FirstIndex(o.wallets, Match)
  IN IF j # 0 THEN [ok |-> TRUE, value |-> o.wallets[j]]
     ELSE [ok |-> FALSE, err |-> "Account with address not founded"]

findAccountByPk(o, publicKeyHex) ==
  LET Match == [w \in Range(o.wallets) |->
                  pubHex(WalletPublicKey(w)) = publicKeyHex]
      j == FirstIndex(o.wallets, Match)
  IN IF j # 0 THEN [ok |-> TRUE, value |-> o.wallets[j]]
     ELSE [ok |-> FALSE, err |-> "Account with public key not founded"]

\* a key no derivation yields, and the empty string as the hex of no key
NoKey == [seed |-> <<>>, path |-> "none", i |-> -3]

EmptyString == pubHex(PublicOf(NoKey))

getWalletForAccount(o, publicKeyHex) ==
  LET Match == [w \in Range(o.wallets) |->
                  pubHex(WalletPublicKey(w)) = publicKeyHex]
      j == FirstIndex(o.wallets, Match)
  IN IF j # 0 THEN [ok |-> TRUE, value |-> o.wallets[j]]
     ELSE [ok |-> FALSE, err |-> "Unable to find matching publicKey"]

getPrivateKeyFor(o, publicKeyHex) ==
  IF publicKeyHex = EmptyString
  THEN [ok |-> FALSE, err |-> "Must specify publicKey"]
  ELSE getWalletForAccount(o, publicKeyHex)

\* bitcore Message(text).sign(key): a signature binds the signer and the text
MessageSign(text, priv) == [signer |-> PublicOf(priv), text |-> text]

\* bitcore Message(text).verify(address, sig)
MessageVerify(text, address, sig) ==
  sig.text = text /\ address.pk = sig.signer

signMessageAnyType(o, address, text) ==
  LET Match == [w \in Range(o.wallets) |->
                  WalletPublicKey(w) = address.pk]
      j == FirstIndex(o.wallets, Match)
  IN IF j # 0
     THEN [ok |-> TRUE, value |-> MessageSign(text, o.wallets[j].privateKey)]
     ELSE [ok |-> FALSE, err |-> "Must specify publicKey"]

signMessage(o, address, text) ==
  LET Match == [w \in Range(o.wallets) |->
                  getAddress(WalletPublicKey(w), o.addressType) = address]
      j == FirstIndex(o.wallets, Match)
      pk == IF j # 0 THEN pubHex(WalletPublicKey(o.wallets[j])) ELSE EmptyString
      keyPair == getPrivateKeyFor(o, pk)
  IN IF keyPair.ok
     THEN [ok |-> TRUE, value |-> MessageSign(text, keyPair.value.privateKey)]
     ELSE [ok |-> FALSE, err |-> keyPair.err]

signPersonalMessage(o, address, message) == signMessage(o, address, message)

\* JSON.stringify: the keys in the order the object was built
JSONstringify(typedData) ==
  IF typedData = <<"a", "b">> THEN "{a:1,b:2}" ELSE "{b:2,a:1}"

signTypedData(o, address, typedData) ==
  signMessage(o, address, JSONstringify(typedData))

verifyMessage(address, text, sig) == MessageVerify(text, address, sig)

exportPublicKey(o, address) ==
  LET account == findAccount(o, address)
  IN IF account.ok
     THEN [ok |-> TRUE, value |-> pubHex(WalletPublicKey(account.value))]
     ELSE account

exportAccount(o, address) ==
  LET account == findAccount(o, address)
  IN IF account.ok
     THEN [ok |-> TRUE, value |-> [wif |-> account.value.privateKey]]
     ELSE account

----------------------------------------------------------------------------
(* The transaction container (belcoinjs-lib Psbt) and signPsbt *)

PsbtInputs == 0..(NumPsbtInputs - 1)

FreshPsbt == [sigs |-> [i \in PsbtInputs |-> {}], finalized |-> {}]

\* Psbt.signInput: attaches the key's signature to input i
signInput(p, i, priv) ==
  IF i \notin PsbtInputs \/ i \in p.finalized
  THEN [ok |-> FALSE, psbt |-> p, err |-> "cannot sign input"]
  ELSE [ok |-> TRUE,
        psbt |-> [p EXCEPT !.sigs[i] = @ \cup {PublicOf(priv)}]]

\* Psbt.finalizeAllInputs: finalizes input after input, throws at the first
\* input that carries no signature
RECURSIVE finalizeFrom(_, _)
finalizeFrom(p, i) ==
  IF i \notin PsbtInputs THEN [ok |-> TRUE, psbt |-> p]
  ELSE IF p.sigs[i] = {}
  THEN [ok |-> FALSE, psbt |-> p, err |-> "Can not finalize input"]
  ELSE finalizeFrom([p EXCEPT !.finalized = @ \cup {i}], i + 1)

finalizeAllInputs(p) == finalizeFrom(p, 0)

\* inputs.map(...): descriptor after descriptor, the first throw ends the call
RECURSIVE signInputsFrom(_, _, _, _)
signInputsFrom(o, p, inputs, k) ==
  IF k > Len(inputs) THEN [ok |-> TRUE, psbt |-> p]
  ELSE LET account == findAccountByPk(o, inputs[k].publicKey)
       IN IF ~account.ok
          THEN [ok |-> FALSE, psbt |-> p, err |-> account.err]
          ELSE LET s == signInput(p, inputs[k].index, account.value.privateKey)
               IN IF ~s.ok THEN s
                  ELSE signInputsFrom(o, s.psbt, inputs, k + 1)

RECURSIVE signInputsSkipping(_, _, _, _)
signInputsSkipping(o, p, inputs, k) ==
  IF k > Len(inputs) THEN [ok |-> TRUE, psbt |-> p]
  ELSE LET account == findAccountByPk(o, inputs[k].publicKey)
       IN IF ~account.ok
          THEN signInputsSkipping(o, p, inputs, k + 1)
          ELSE LET s == signInput(p, inputs[k].index, account.value.privateKey)
               IN IF ~s.ok THEN s
                  ELSE signInputsSkipping(o, s.psbt, inputs, k + 1)

signPsbtSkipping(o, p, inputs) ==
  LET m == signInputsSkipping(o, p, inputs, 1)
  IN IF ~m.ok
     THEN [ok |-> FALSE, psbt |-> m.psbt, err |-> m.err,
           finalizeInvoked |-> FALSE]
     ELSE LET f == finalizeAllInputs(m.psbt)
          IN [ok |-> f.ok, psbt |-> f.psbt, finalizeInvoked |-> TRUE,
              err |-> IF f.ok THEN "" ELSE f.err]

signPsbt(o, p, inputs) ==
  LET m == signInputsFrom(o, p, inputs, 1)
  IN IF ~m.ok
     THEN [ok |-> FALSE, psbt |-> m.psbt, err |-> m.err,
           finalizeInvoked |-> FALSE]
     ELSE LET f == finalizeAllInputs(m.psbt)
          IN [ok |-> f.ok, psbt |-> f.psbt, finalizeInvoked |-> TRUE,
              err |-> IF f.ok THEN "" ELSE f.err]

----------------------------------------------------------------------------
(* Persisted state *)

getChildCount(o) == Len(o.wallets)

serializeUnguarded(o) ==
  IF ~IsDefined(o.seed)
  THEN [ok |-> FALSE, err |-> "TypeError"]
  ELSE [ok |-> TRUE,
        value |-> [numberOfAccounts |-> Some(getChildCount(o)),
                   seed |-> toHex(o.seed.v),
                   addressType |-> o.addressType]]

serialize(o) ==
  IF o.childIndex # 0
  THEN [ok |-> FALSE, err |-> "You should use only root wallet to serializing"]
  ELSE IF ~IsDefined(o.seed)
  THEN [ok |-> FALSE, err |-> "TypeError"]
  ELSE [ok |-> TRUE,
        value |-> [numberOfAccounts |-> Some(getChildCount(o)),
                   seed |-> toHex(o.seed.v),
                   addressType |-> o.addressType]]

\* static deserialize: a new root instance rebuilt from the persisted state
staticDeserialize(opts) ==
  IF ~IsDefined(opts.numberOfAccounts) \/ opts.seed = <<>>
  THEN [ok |-> FALSE, err |-> "Deserialize method cannot be called"]
  ELSE LET bytes == fromHex(opts.seed)
       IN IF ~bytes.ok THEN [ok |-> FALSE, err |-> bytes.err]
          ELSE LET r == [fromSeed(NewInstance, bytes.value)
                           EXCEPT !.addressType = opts.addressType]
               IN IF opts.numberOfAccounts.v = 0 THEN [ok |-> TRUE, o |-> r]
                  ELSE LET a == addAccounts(r, opts.numberOfAccounts.v)
                       IN IF a.ok THEN [ok |-> TRUE, o |-> a.o]
                          ELSE [ok |-> FALSE, err |-> a.err]

\* instance deserialize: only the seed of the rebuilt instance is taken over
deserialize(o, state) ==
  LET deserialized == staticDeserialize(state)
  IN IF ~deserialized.ok THEN [ok |-> FALSE, o |-> o, err |-> deserialized.err]
     ELSE [ok |-> TRUE,
           o |-> fromOptions(o, [seed |-> toHex(deserialized.o.seed.v)]).o]

\* the tail of fromMnemonic, run when the awaited mnemonicToSeed resolves
fromMnemonicResume(o, s) == SetSeed(o, s)

----------------------------------------------------------------------------
(* The state machine *)

MaxPending == 1

SetThis(o) ==
  /\ childIndex' = o.childIndex
  /\ privateKey' = o.privateKey
  /\ publicKey' = o.publicKey
  /\ wallets' = o.wallets
  /\ seed' = o.seed
  /\ index2wallet' = o.index2wallet
  /\ hdWallet' = o.hdWallet
  /\ root' = o.root
  /\ hdPath' = o.hdPath
  /\ addressType' = o.addressType
  /\ nextId' = o.nextId

thisVars == <<childIndex, privateKey, publicKey, wallets, seed, index2wallet,
              hdWallet, root, hdPath, addressType, nextId>>

\* the receiver of a call: a new instance for a static method, else this one
Receiver(static) == IF static THEN NewInstance ELSE This

ReceiverPending(static) == IF static THEN {} ELSE pending

Init ==
  /\ childIndex = NewInstance.childIndex
  /\ privateKey = NewInstance.privateKey
  /\ publicKey = NewInstance.publicKey
  /\ wallets = NewInstance.wallets
  /\ seed = NewInstance.seed
  /\ index2wallet = NewInstance.index2wallet
  /\ hdWallet = NewInstance.hdWallet
  /\ root = NewInstance.root
  /\ hdPath = NewInstance.hdPath
  /\ addressType = NewInstance.addressType
  /\ nextId = NewInstance.nextId
  /\ pending = {}
  /\ last = [op |-> "constructor", ok |-> TRUE, options |-> undefined]

\* new HDPrivateKey(options?): fromOptions is not awaited; its rejection is
\* nobody's, and the constructor returns normally
Constructor(options) ==
  /\ ~Hung
  /\ SetThis(IF IsDefined(options)
             THEN fromOptions(NewInstance, options.v).o ELSE NewInstance)
  /\ pending' = {}
  /\ last' = [op |-> "constructor", ok |-> TRUE, options |-> options]

FromOptions(static, options) ==
  LET r == fromOptions(Receiver(static), options)
  IN /\ ~Hung
     /\ SetThis(r.o)
     /\ pending' = ReceiverPending(static)
     /\ last' = [op |-> "fromOptions", ok |-> r.ok, static |-> static]

FromSeed(static, s) ==
  /\ ~Hung
  /\ SetThis(fromSeed(Receiver(static), s))
  /\ pending' = ReceiverPending(static)
  /\ last' = [op |-> "fromSeed", ok |-> TRUE, static |-> static]

\* fromMnemonic up to its await: the conversion is in flight, the promise
\* handed to the caller is not settled
FromMnemonic(static, phrase) ==
  /\ ~Hung
  /\ Cardinality(ReceiverPending(static)) < MaxPending
  /\ SetThis(Receiver(static))
  /\ pending' = ReceiverPending(static)
                  \cup {[phrase |-> phrase, via |-> "fromMnemonic"]}
  /\ last' = [op |-> "fromMnemonic", ok |-> TRUE, static |-> static,
              settled |-> FALSE]

\* fromPhrase: starts fromMnemonic, does not await it, returns this
FromPhrase(static, phrase) ==
  /\ ~Hung
  /\ Cardinality(ReceiverPending(static)) < MaxPending
  /\ SetThis(Receiver(static))
  /\ pending' = ReceiverPending(static)
                  \cup {[phrase |-> phrase, via |-> "fromPhrase"]}
  /\ last' = [op |-> "fromPhrase", ok |-> TRUE, static |-> static]

\* a mnemonicToSeed promise settles: fromMnemonic resumes after its await,
\* or its promise rejects (which only a caller of fromMnemonic can observe)
MnemonicSettles(p) ==
  /\ ~Hung
  /\ p \in pending
  /\ pending' = pending \ {p}
  /\ IF mnemonicRejects(p.phrase)
     THEN /\ UNCHANGED thisVars
          /\ last' = [op |-> "mnemonicToSeed", ok |-> FALSE, via |-> p.via,
                      surfaced |-> p.via = "fromMnemonic"]
     ELSE /\ SetThis(fromMnemonicResume(This, mnemonicSeed(p.phrase, "bells")))
          /\ last' = [op |-> "mnemonicToSeed", ok |-> TRUE, via |-> p.via,
                      surfaced |-> p.via = "fromMnemonic"]

FromPrivateKey ==
  /\ ~Hung
  /\ last' = [op |-> "fromPrivateKey", ok |-> FALSE]
  /\ UNCHANGED <<thisVars, pending>>

ChangeHdPath(path) ==
  /\ ~Hung
  /\ SetThis(changeHdPath(This, path))
  /\ last' = [op |-> "changeHdPath", ok |-> TRUE, path |-> path,
              cleared |-> Len(wallets)]
  /\ UNCHANGED pending

\* the caller sets the inherited addressType field (as line 237 does)
SetAddressType(t) ==
  /\ ~Hung
  /\ SetThis([This EXCEPT !.addressType = t])
  /\ last' = [op |-> "setAddressType", ok |-> TRUE]
  /\ UNCHANGED pending

AddAccounts(n) ==
  /\ ~Hung
  /\ Len(wallets) + n <= MaxIndex
  /\ LET r == addAccounts(This, n)
     IN /\ SetThis(r.o)
        /\ last' = [op |-> "addAccounts", ok |-> r.ok, n |-> n,
                    value |-> IF r.ok THEN r.value ELSE <<>>,
                    running |-> ~r.ok /\ r.err = StillRunning,
                    added |-> Len(r.o.wallets) - Len(wallets),
                    afterCleared |-> IF last.op = "changeHdPath"
                                     THEN last.cleared ELSE -1]
  /\ UNCHANGED pending

GetAccountsDeriving ==
  /\ last' = [op |-> "getAccounts", ok |-> TRUE, value |-> getAccounts(This)]
  /\ SetThis(IF IsDefined(root)
             THEN addressFromIndex(This, Len(wallets) + 1).o ELSE This)
  /\ UNCHANGED pending

GetAccounts ==
  /\ ~Hung
  /\ last' = [op |-> "getAccounts", ok |-> TRUE, value |-> getAccounts(This)]
  /\ UNCHANGED <<thisVars, pending>>

\* addresses a caller may pass: the listed ones, the next child not yet
\* registered, a registered key under another address type, and one of no key
NextChildAddresses ==
  IF IsDefined(root)
  THEN {getAddress(PublicOf(deriveChild(root.v, Len(wallets) + 1)),
                   addressType)}
  ELSE {}

OtherTypeAddresses ==
  {getAddress(WalletPublicKey(wallets[j]), t) :
     j \in DOMAIN wallets \cap {1}, t \in OtherAddressTypes}

AddressInputs ==
  {getAccounts(This)[j] : j \in DOMAIN getAccounts(This) \cap {1, 2}}
  \cup NextChildAddresses \cup OtherTypeAddresses
  \cup {getAddress(PublicOf(NoKey), addressType)}

TypedDatas == {<<"a", "b">>}

SignMessage(address, text) ==
  /\ ~Hung
  /\ LET r == signMessage(This, address, text)
     IN last' = [op |-> "signMessage", ok |-> r.ok,
                 listed |-> address \in Range(getAccounts(This)),
                 verified |-> r.ok /\ verifyMessage(address, text, r.value)]
  /\ UNCHANGED <<thisVars, pending>>

SignPersonalMessage(address, message) ==
  /\ ~Hung
  /\ LET r == signPersonalMessage(This, address, message)
     IN last' = [op |-> "signPersonalMessage", ok |-> r.ok,
                 listed |-> address \in Range(getAccounts(This))]
  /\ UNCHANGED <<thisVars, pending>>

SignTypedData(address, typedData) ==
  /\ ~Hung
  /\ LET r == signTypedData(This, address, typedData)
     IN last' = [op |-> "signTypedData", ok |-> r.ok,
                 listed |-> address \in Range(getAccounts(This))]
  /\ UNCHANGED <<thisVars, pending>>

SignatureInputs(text) ==
  {MessageSign(text, w.privateKey) : w \in Range(wallets)}
  \cup {MessageSign(text, privateKey)}

VerifyMessage(address, text, sig) ==
  /\ ~Hung
  /\ last' = [op |-> "verifyMessage", ok |-> TRUE,
              value |-> verifyMessage(address, text, sig)]
  /\ UNCHANGED <<thisVars, pending>>

ExportPublicKey(address) ==
  /\ ~Hung
  /\ LET r == exportPublicKey(This, address)
     IN last' = [op |-> "exportPublicKey", ok |-> r.ok]
  /\ UNCHANGED <<thisVars, pending>>

ExportAccount(address) ==
  /\ ~Hung
  /\ LET r == exportAccount(This, address)
     IN last' = [op |-> "exportAccount", ok |-> r.ok]
  /\ UNCHANGED <<thisVars, pending>>

\* public keys a descriptor may name: a registered one, the next child's
PublicKeyInputs ==
  {pubHex(WalletPublicKey(wallets[j])) : j \in DOMAIN wallets \cap {1}}
  \cup (IF IsDefined(root)
        THEN {pubHex(PublicOf(deriveChild(root.v, Len(wallets) + 1)))}
        ELSE {pubHex(publicKey)})

Descriptors(pks) ==
  {[index |-> i, publicKey |-> pk] : i \in PsbtInputs, pk \in pks}

InputLists(pks) ==
  UNION {[1..n -> Descriptors(pks)] : n \in 0..MaxInputs}

\* transactions a caller may pass: unsigned, or input 0 signed by someone else
PsbtValues ==
  {FreshPsbt, [FreshPsbt EXCEPT !.sigs[0] = {PublicOf(NoKey)}]}

Registered(o, publicKeyHex) ==
  \E j \in DOMAIN o.wallets : pubHex(WalletPublicKey(o.wallets[j])) = publicKeyHex

\* position of the first descriptor naming no registered key, 0 if none
FirstUnresolved(o, inputs) ==
  IF \E k \in DOMAIN inputs : ~Registered(o, inputs[k].publicKey)
  THEN CHOOSE k \in DOMAIN inputs :
         /\ ~Registered(o, inputs[k].publicKey)
         /\ \A j \in 1..(k - 1) : Registered(o, inputs[j].publicKey)
  ELSE 0

SignPsbt(p, inputs) ==
  /\ ~Hung
  /\ LET r == signPsbt(This, p, inputs)
     IN last' = [op |-> "signPsbt", ok |-> r.ok,
                 unresolvedAt |-> FirstUnresolved(This, inputs),
                 before |-> p, after |-> r.psbt,
                 finalizeInvoked |-> r.finalizeInvoked]
  /\ UNCHANGED <<thisVars, pending>>

Serialize ==
  /\ ~Hung
  /\ LET r == serialize(This)
     IN last' = [op |-> "serialize", ok |-> r.ok,
                 value |-> IF r.ok THEN Some(r.value) ELSE undefined]
  /\ UNCHANGED <<thisVars, pending>>

\* persisted states a caller may pass
StateInputs ==
  {[numberOfAccounts |-> Some(k), seed |-> toHex(SeedA),
    addressType |-> "P2PKH"] : k \in -1..MaxAdd}
  \cup {[numberOfAccounts |-> undefined, seed |-> toHex(SeedA),
         addressType |-> "P2PKH"],
        [numberOfAccounts |-> Some(1), seed |-> <<>>, addressType |-> "P2PKH"]}

Deserialize(static, state) ==
  /\ ~Hung
  /\ LET r == IF static THEN staticDeserialize(state)
              ELSE deserialize(This, state)
     IN /\ SetThis(IF r.ok THEN r.o ELSE This)
        /\ pending' = IF static /\ r.ok THEN {} ELSE pending
        /\ last' = [op |-> "deserialize", ok |-> r.ok, static |-> static,
                    state |-> state,
                    running |-> ~r.ok /\ r.err = StillRunning]

Next ==
  \/ \E options \in {undefined} \cup {Some([seed |-> h]) : h \in SeedHexes} :
       Constructor(options)
  \/ \E static \in BOOLEAN, h \in SeedHexes :
       FromOptions(static, [seed |-> h])
  \/ \E static \in BOOLEAN, s \in Seeds : FromSeed(static, s)
  \/ \E static \in BOOLEAN, phrase \in Phrases : FromMnemonic(static, phrase)
  \/ \E static \in BOOLEAN, phrase \in Phrases : FromPhrase(static, phrase)
  \/ \E p \in pending : MnemonicSettles(p)
  \/ FromPrivateKey
  \/ \E path \in Paths : ChangeHdPath(path)
  \/ \E t \in AddressTypes : SetAddressType(t)
  \/ \E n \in -1..MaxAdd : AddAccounts(n)
  \/ GetAccounts
  \/ \E a \in AddressInputs, t \in Texts : SignMessage(a, t)
  \/ \E a \in AddressInputs, t \in Texts : SignPersonalMessage(a, t)
  \/ \E a \in AddressInputs, td \in TypedDatas : SignTypedData(a, td)
  \/ \E a \in Range(getAccounts(This)), t \in Texts :
       \E sig \in SignatureInputs(t) : VerifyMessage(a, t, sig)
  \/ \E a \in AddressInputs : ExportPublicKey(a)
  \/ \E a \in AddressInputs : ExportAccount(a)
  \/ \E inputs \in InputLists(PublicKeyInputs) : SignPsbt(FreshPsbt, inputs)
  \/ Serialize
  \/ \E static \in BOOLEAN, state \in StateInputs : Deserialize(static, state)

Spec == Init /\ [][Next]_vars

\* instances built from a seed, then only extended and re-pathed
NextSeedPath ==
  \/ \E s \in Seeds : FromSeed(TRUE, s)
  \/ \E path \in Paths : ChangeHdPath(path)
  \/ \E t \in AddressTypes : SetAddressType(t)
  \/ \E n \in 0..MaxAdd : AddAccounts(n)
  \/ Serialize

SpecSeedPath == Init /\ [][NextSeedPath]_vars

\* childIndex is a public field that no method but fromOptions writes; a
\* caller that holds the instance can assign it
ChildIndexes == {0, 1}

SetChildIndex(c) ==
  /\ ~Hung
  /\ SetThis([This EXCEPT !.childIndex = c])
  /\ last' = [op |-> "setChildIndex", ok |-> TRUE]
  /\ UNCHANGED pending

\* instances whose childIndex the caller assigns, built, extended, serialized
NextChildIndex ==
  \/ \E options \in {undefined} \cup {Some([seed |-> h]) : h \in SeedHexes} :
       Constructor(options)
  \/ \E s \in Seeds : FromSeed(FALSE, s)
  \/ \E h \in SeedHexes : FromOptions(FALSE, [seed |-> h])
  \/ \E c \in ChildIndexes : SetChildIndex(c)
  \/ \E t \in AddressTypes : SetAddressType(t)
  \/ \E n \in 0..MaxAdd : AddAccounts(n)
  \/ Serialize

SpecChildIndex == Init /\ [][NextChildIndex]_vars

----------------------------------------------------------------------------
(* Properties *)

KeyUniverse ==
  {ZERO_PRIVKEY, NoKey}
  \cup {[seed |-> s, path |-> p, i |-> i] :
          s \in Seeds, p \in Paths, i \in {-1} \cup 1..(MaxIndex + 1)}

AddressUniverse ==
  {getAddress(PublicOf(k), t) :
     k \in KeyUniverse,
     t \in AddressTypes \cup OtherAddressTypes \cup {"undefined"}}

\* no collision is in play: the colliding seed has never been this instance's
CollisionFree ==
  /\ seed # Some(CollidingSeed)
  /\ \A j \in DOMAIN wallets : wallets[j].privateKey.seed # CollidingSeed

\* the root the current seed and the current path determine
CurrentRoot == derive(fromMasterSeed(seed.v), hdPath)

\* C1: with an injective derivation, a successful addAccounts(n) on an
\* initialised instance holding L accounts keeps those L, registers exactly
\* the children at indices L+1..L+n (so 1..n on an empty registry, and
\* n+1..n+m on the call after), returns their n pairwise distinct addresses,
\* none of them listed before, and getAccounts() grows by exactly n.
C1_AdditionMonotone ==
  [][(last'.op = "addAccounts" /\ last'.ok /\ IsDefined(root)
      /\ CollisionFree)
     => LET L == Len(wallets)
            n == last'.n
        IN /\ Len(wallets') = L + n
           /\ SubSeq(wallets', 1, L) = wallets
           /\ Len(last'.value) = n
           /\ \A j \in 1..n :
                /\ (L + j) \in DOMAIN index2wallet'
                /\ index2wallet'[L + j].wallet = wallets'[L + j]
                /\ wallets'[L + j].privateKey
                     = deriveChild(root.v, L + j)
                /\ last'.value[j]
                     = getAddress(WalletPublicKey(wallets'[L + j]), addressType)
                /\ last'.value[j] \notin Range(getAccounts(This))
           /\ \A i \in 1..n, j \in 1..n :
                i # j => last'.value[i] # last'.value[j]
           /\ Len(getAccounts(This)') = Len(getAccounts(This)) + n]_vars

\* C1 witness: a second addAccounts has added accounts after earlier ones
C1_Witness ==
  /\ last.op = "addAccounts" /\ last.ok /\ last.n >= 1
  /\ CollisionFree
  /\ Len(wallets) > last.n

\* C2: on an initialised instance, signMessage for an address that
\* getAccounts() lists (the root address included) succeeds, and the
\* signature verifies for that address and text.
C2_ListedSignsAndVerifies ==
  (last.op = "signMessage" /\ last.listed /\ IsDefined(root)
   /\ CollisionFree)
    => (last.ok /\ last.verified)

\* C3: in every state, for every address that getAccounts() does not list,
\* signMessage, signPersonalMessage and signTypedData all fail.
C3_UnlistedNeverSigns ==
  \A a \in AddressUniverse \ Range(getAccounts(This)) :
    /\ \A t \in Texts : ~signMessage(This, a, t).ok
    /\ \A t \in Texts : ~signPersonalMessage(This, a, t).ok
    /\ \A td \in TypedDatas : ~signTypedData(This, a, td).ok

\* C3 witness: with accounts registered, a signing call for an unlisted
\* address has failed
C3_Witness ==
  /\ last.op \in {"signMessage", "signPersonalMessage", "signTypedData"}
  /\ ~last.listed /\ ~last.ok
  /\ Len(wallets) >= 1

\* C4: for every transaction and every descriptor list that names, at any
\* position, a public key that is no registered account's, signPsbt fails,
\* finalizeAllInputs is not invoked and no input is finalized.
C4_NoFinalizeOnUnresolved ==
  \A p \in PsbtValues :
    \A inputs \in InputLists(PublicKeyInputs \cup {pubHex(publicKey)}) :
      FirstUnresolved(This, inputs) # 0
        => LET r == signPsbt(This, p, inputs)
           IN ~r.ok /\ ~r.finalizeInvoked /\ r.psbt.finalized = {}

\* C4 witness: signPsbt has failed on a list whose second descriptor is the
\* unresolved one, after signing for the first
C4_Witness ==
  /\ last.op = "signPsbt" /\ last.unresolvedAt = 2
  /\ ~last.ok /\ ~last.finalizeInvoked /\ last.after.finalized = {}

\* C5: when signPsbt fails on an unresolved descriptor, the transaction is
\* exactly as it was before the call.
C5_NoPartialApplication ==
  (last.op = "signPsbt" /\ last.unresolvedAt # 0 /\ CollisionFree)
    => (~last.ok /\ last.after = last.before)

\* C6: right after changeHdPath(newPath) the cache and the registry are empty,
\* getAccounts() has length 1, and on an initialised instance the root is the
\* new path's; an addAccounts(n) that follows registers exactly the children
\* 1..n of the new path's root.
C6_PathChangeInvalidates ==
  /\ last.op = "changeHdPath"
       => /\ wallets = <<>> /\ index2wallet = <<>>
          /\ hdPath = last.path
          /\ Len(getAccounts(This)) = 1
          /\ IsDefined(seed) => root = Some(CurrentRoot)
  /\ (last.op = "addAccounts" /\ last.afterCleared >= 0 /\ last.ok
      /\ IsDefined(seed))
       => /\ Len(wallets) = last.n
          /\ \A j \in 1..last.n :
               /\ j \in DOMAIN index2wallet
               /\ index2wallet[j].wallet = wallets[j]
               /\ wallets[j].privateKey = deriveChild(CurrentRoot, j)

\* C6 witness: accounts were registered, the path was changed, and accounts
\* have been added again
C6_Witness ==
  /\ last.op = "addAccounts" /\ last.ok /\ last.n >= 1
  /\ last.afterCleared >= 1
  /\ IsDefined(seed) /\ hdPath = OtherPath

\* C7: for an instance built from a seed and then only extended and
\* re-pathed, deserialize(serialize(x)) lists the same accounts as x.
C7_RoundTrip ==
  (IsDefined(seed) /\ CollisionFree)
    => LET st == serialize(This)
       IN /\ st.ok
          /\ LET d == staticDeserialize(st.value)
             IN d.ok /\ getAccounts(d.o) = getAccounts(This)

\* C8: after a successful deserialize, static or on an instance, the instance
\* has the state's seed and addressType and exactly numberOfAccounts
\* registered accounts, the children 1..numberOfAccounts of its root.
C8_DeserializeRebuilds ==
  (last.op = "deserialize" /\ last.ok /\ CollisionFree)
    => /\ seed = Some(fromHex(last.state.seed).value)
       /\ addressType = last.state.addressType
       /\ Len(wallets) = last.state.numberOfAccounts.v
       /\ Len(getAccounts(This)) = 1 + last.state.numberOfAccounts.v
       /\ \A j \in DOMAIN wallets :
            wallets[j].privateKey = deriveChild(root.v, j)

\* C9: an instance that fromPhrase has handed back has its seed and root set,
\* and no account operation runs on it while its conversion is in flight
\* and the root is unset.
C9_PhraseGatesDerivation ==
  /\ last.op = "fromPhrase" => (IsDefined(seed) /\ IsDefined(root))
  /\ last.op \in {"addAccounts", "getAccounts", "serialize"}
       => \A p \in pending : p.via = "fromPhrase" => IsDefined(root)

\* C10: a constructor call with options that returns normally has set the
\* seed and the root, and a failed mnemonic conversion reaches a caller.
C10_NoSwallowedError ==
  /\ (last.op = "constructor" /\ IsDefined(last.options) /\ last.ok)
       => (IsDefined(seed) /\ IsDefined(root))
  /\ (last.op = "mnemonicToSeed" /\ ~last.ok) => last.surfaced

\* the step stays on the instance the caller already held: it is neither a
\* constructor call nor a static method, which hand out a new instance
SameInstance ==
  /\ last.op # "constructor"
  /\ ("static" \in DOMAIN last) => ~last.static

\* C11: once the seed of an instance is set, no later operation on that
\* instance, nor a pending mnemonic conversion completing, changes it.
C11_SeedImmutable ==
  [][(IsDefined(seed) /\ SameInstance') => seed' = seed]_vars

\* C12: between two path changes on one instance, an index once cached keeps
\* its stored entry, the identical object, and the derivation primitive runs
\* only for the indices a step adds to the cache (nextId counts its runs).
C12_CacheAtMostOnce ==
  [][(SameInstance' /\ last'.op # "changeHdPath")
     => /\ \A i \in DOMAIN index2wallet :
             /\ i \in DOMAIN index2wallet'
             /\ index2wallet'[i] = index2wallet[i]
        /\ nextId' - nextId
             = Cardinality(DOMAIN index2wallet' \ DOMAIN index2wallet)]_vars

\* C12 witness: an addAccounts that asked the cache for an index it already
\* held (index 1 is asked for again before index 2 is derived)
C12_Witness ==
  /\ last.op = "addAccounts" /\ last.ok /\ last.n >= 2
  /\ nextId = Len(wallets)
  /\ DOMAIN index2wallet = 1..Len(wallets)

\* C13: getAccounts() is the address of the instance's public key followed by
\* the addresses of the registered accounts in registration order (the j-th
\* registered under the current path is the j-th ECPair allocated under it),
\* and an addAccounts appends the addresses it returns, in order.
C13_AccountsInRegistrationOrder ==
  /\ [](LET a == getAccounts(This)
        IN /\ Len(a) = 1 + Len(wallets)
           /\ a[1] = getAddress(publicKey, addressType)
           /\ \A j \in DOMAIN wallets :
                /\ wallets[j].id = j - 1
                /\ a[j + 1]
                     = getAddress(WalletPublicKey(wallets[j]), addressType))
  /\ [][(last'.op = "addAccounts" /\ last'.ok)
        => getAccounts(This)' = getAccounts(This) \o last'.value]_vars

\* C13 witness: getAccounts() has answered with the root address and two
\* registered accounts
C13_Witness ==
  /\ last.op = "getAccounts" /\ Len(last.value) = 3
  /\ Len(wallets) = 2 /\ IsDefined(root)

\* C14: serialize() on an instance whose childIndex is not 0 fails and yields
\* no state; on one with childIndex 0 and a seed it returns exactly the
\* number of registered accounts, the hex of the seed and the addressType.
C14_SerializeGuard ==
  last.op = "serialize"
    => /\ childIndex # 0 => (~last.ok /\ last.value = undefined)
       /\ (childIndex = 0 /\ IsDefined(seed))
            => /\ last.ok
               /\ DOMAIN last.value.v
                    = {"numberOfAccounts", "seed", "addressType"}
               /\ last.value.v.numberOfAccounts = Some(Len(wallets))
               /\ last.value.v.seed = toHex(seed.v)
               /\ fromHex(last.value.v.seed) = [ok |-> TRUE, value |-> seed.v]
               /\ last.value.v.addressType = addressType

\* C14 witness: serialize() has been refused on a seeded instance with
\* registered accounts whose childIndex is not 0
C14_Witness ==
  /\ last.op = "serialize" /\ ~last.ok
  /\ childIndex # 0 /\ IsDefined(seed) /\ Len(wallets) >= 1

\* C15: on an initialised instance the exposed privateKey and publicKey, and
\* so the first address of getAccounts(), are those of the root that the
\* current hdPath yields from the current seed.
C15_RootKeyFollowsPath ==
  IsDefined(seed)
    => /\ privateKey = NodePrivateKey(CurrentRoot)
       /\ publicKey = PublicOf(NodePrivateKey(CurrentRoot))
       /\ getAccounts(This)[1]
            = getAddress(PublicOf(NodePrivateKey(CurrentRoot)), addressType)

\* C16: no two entries of the registry hold the same key-pair (equal public
\* key), also when the derivation yields one key-pair for two indices.
C16_RegistryDedupByKey ==
  \A i \in DOMAIN wallets, j \in DOMAIN wallets :
    i # j => WalletPublicKey(wallets[i]) # WalletPublicKey(wallets[j])

\* C17: on every step that stays on the instance and is no changeHdPath, the
\* registry before the step is a prefix of the registry after it and no
\* cached index is dropped.
C17_RegistryAppendOnly ==
  [][(SameInstance' /\ last'.op # "changeHdPath")
     => /\ Len(wallets) <= Len(wallets')
        /\ SubSeq(wallets', 1, Len(wallets)) = wallets
        /\ DOMAIN index2wallet \subseteq DOMAIN index2wallet']_vars

\* C17 witness: a re-construction call has run on an instance that holds
\* registered accounts, and they are still registered
C17_Witness ==
  /\ last.op \in {"fromSeed", "fromOptions", "deserialize", "mnemonicToSeed"}
  /\ SameInstance /\ last.ok
  /\ Len(wallets) >= 1

\* C18: on an initialised instance with a collision-free derivation,
\* addAccounts(n) returns for every integer n, having registered max(n, 0)
\* new accounts.
C18_AddAccountsTerminates ==
  (last.op = "addAccounts" /\ IsDefined(root) /\ CollisionFree)
    => /\ ~last.running
       /\ last.ok
       /\ last.added = (IF last.n > 0 THEN last.n ELSE 0)

ReadOnlyOps ==
  {"getAccounts", "signMessage", "signPersonalMessage", "signTypedData",
   "verifyMessage", "exportPublicKey", "exportAccount", "serialize",
   "signPsbt"}

\* C19: getAccounts, the signing calls, verifyMessage, the exports, serialize
\* and signPsbt, succeeding or failing, leave the seed, the path, the root,
\* the exposed key-pair, the cache and the registry as they were.
C19_ReadOnlyFrame ==
  [][last'.op \in ReadOnlyOps
     => UNCHANGED <<seed, hdPath, hdWallet, root, privateKey, publicKey,
                    index2wallet, wallets, addressType, childIndex,
                    nextId, pending>>]_vars

\* C19 witness: signPsbt has succeeded on an instance with registered
\* accounts and changed the transaction it was given
C19_Witness ==
  /\ last.op = "signPsbt" /\ last.ok
  /\ last.after # last.before
  /\ Len(wallets) >= 1 /\ index2wallet # <<>>

\* C20: on an initialised instance every cache entry at index i holds the
\* child i of the current root (current seed, current path), and every
\* registered account is such a child for some index i >= 1.
C20_CoherentWithCurrentRoot ==
  IsDefined(seed)
    => /\ root = Some(CurrentRoot)
       /\ \A i \in DOMAIN index2wallet :
            index2wallet[i].wallet.privateKey = deriveChild(CurrentRoot, i)
       /\ \A j \in DOMAIN wallets :
            \E i \in 1..(MaxIndex + 1) :
              wallets[j].privateKey = deriveChild(CurrentRoot, i)

====
